---- MODULE Spec2Model ----
(***************************************************************************)
(* Upload / tracking pipeline of the SysML v2 agent (src/src/file_manager.py, *)
(* src/utils/validators.py).  One FileManager instance over one cache       *)
(* directory, a remote service whose answers are nondeterministic, and an   *)
(* outside actor that may rewrite a PDF on disk at any moment.              *)
(***************************************************************************)
EXTENDS Integers, Sequences, FiniteSets, TLC

\* ------------------------------------------------------------------ bounds
\* files.upload requests explored in one session
MaxUploads == 2
\* the per-call counters of the processing wait saturate at this value
MaxPolls == 2
\* largest max_retries handed to ask_with_retry
MaxRetries == 3

\* ------------------------------------------------------ program constants
\* time.sleep(2) in both wait loops
SleepUnit == 2
\* max_wait_time of the import wait
max_wait_time == 300

\* Python's None / a missing attribute
None == <<>>

Min(a, b) == IF a < b THEN a ELSE b

\* str(path): a path held as a value of an entry
str(p) == <<"str", p>>

\* ------------------------------------------------------------ file system
\* path spellings handed to upload_file
Paths == {"/docs/a.pdf", "a.pdf", "/docs/b.pdf", "/docs/missing.pdf",
          "/docs", "/docs/notes.txt", "/docs/empty.pdf", "/docs/locked.pdf"}

\* Path.resolve(): the relative spelling names the same physical file
resolve(p) == IF p = "a.pdf" THEN "/docs/a.pdf" ELSE p

\* physical regular files and the ones an outside actor rewrites
RegularFiles == {"/docs/a.pdf", "/docs/b.pdf", "/docs/notes.txt",
                 "/docs/empty.pdf", "/docs/locked.pdf", "/docs/sub/c.pdf",
                 "/scan.PDF", "/papers/p.pdf", "/papers/q.pdf",
                 "/papers/readme.txt"}
\* directories, and the one the process may not read
Directories == {"/docs", "/docs/sub", "/papers", "/empty", "/private"}
UnreadableDirectories == {"/private"}
MutableFiles == {"/docs/a.pdf"}
\* file contents; 0 is the empty file
Contents == 0..2

path_exists(p) == resolve(p) \in RegularFiles \cup Directories
path_is_file(p) == resolve(p) \in RegularFiles
\* Path.suffix: the last dot of the final component and what follows it
suffix(p) ==
    IF p \in {"/docs/a.pdf", "a.pdf", "/docs/b.pdf", "/docs/empty.pdf",
              "/docs/locked.pdf", "/docs/missing.pdf", "/docs/sub/c.pdf",
              "/papers/p.pdf", "/papers/q.pdf"}
    THEN ".pdf"
    ELSE IF p = "/scan.PDF" THEN ".PDF"
    ELSE IF p \in {"/docs/notes.txt", "/papers/readme.txt"} THEN ".txt"
    ELSE ""
\* str.lower() over the suffixes above
lower(sfx) == IF sfx = ".PDF" THEN ".pdf" ELSE sfx
\* Path.suffix.lower()
suffix_lower(p) == lower(suffix(p))
\* open(path, "rb") succeeds
readable(p) == resolve(p) \in RegularFiles \ {"/docs/locked.pdf"}

\* hashlib.sha256 over the content: distinct contents, distinct digests
sha256(c) == <<"sha256", c>>

VARIABLES
    content,            \* content of every regular file on disk
    tracked_files,      \* FileManager._tracked_files
    tracking_file,      \* the persisted file_tracking.json
    file_search_store,  \* FileManager.file_search_store (None in degraded mode)
    has_operations,     \* hasattr(client, 'operations')
    store_init,         \* what the remote answered while the manager was constructed
    pc,                 \* position of the running upload_file / "idle" / "done"
    path,               \* argument of the running or last upload_file
    is_valid,           \* result of validate_pdf_file in this call
    is_tracked,         \* result of _is_file_tracked in this call
    uploaded_file,      \* remote file handle held by the call
    operation,          \* import operation held by the call
    wait_time,          \* wait_time of the import wait
    result,             \* value returned by the call
    raised,             \* an exception left the call
    calls,              \* remote calls and sleeps issued by this call
    exit_by,            \* how this call left the import wait
    remote_err,         \* remote calls that raised during this call
    track_fail,         \* what failed in the record step of this call
    recorded,           \* this call wrote a tracking entry and returned it
    op_failure,         \* an import operation seen by this call carried a failure
    nUpload,            \* files.upload requests issued so far
    tracked0,           \* _tracked_files when the call started
    disk0,              \* tracking file when the call started
    cache_cleared,      \* what the last clear_cache returned, if no upload_file since
    last,               \* summary of the last completed upload_file
    prev,               \* summary of the upload_file completed before the running one
    rag,                \* the running or last RAGHandler call
    batch,              \* the running or last upload_directory
    validation,         \* what the last direct validate_pdf_file call was given and said
    cli,                \* the running command of the command line
    other,              \* _tracked_files of a second FileManager over the same cache
    read                \* the last read-only query and what it returned

vars == <<content, tracked_files, tracking_file, file_search_store, has_operations,
          store_init,
          pc, path, is_valid, is_tracked, uploaded_file, operation, wait_time,
          result, raised, calls, exit_by, remote_err, track_fail, recorded,
          op_failure, nUpload, tracked0, disk0, cache_cleared, last, prev, rag,
          batch, validation, cli, other, read>>

\* --------------------------------------------------------------- validator
\* validate_pdf_file with the size check ahead of the extension check
validate_pdf_file_size_first(p, c) ==
    IF ~path_exists(p) THEN "not_found"
    ELSE IF ~path_is_file(p) THEN "not_a_file"
    ELSE IF c[resolve(p)] = 0 THEN "empty"
    ELSE IF suffix_lower(p) # ".pdf" THEN "wrong_type"
    ELSE "ok"

\* validate_pdf_file: the first failing check decides
validate_pdf_file(p, c) ==
    IF ~path_exists(p) THEN "not_found"
    ELSE IF ~path_is_file(p) THEN "not_a_file"
    ELSE IF suffix_lower(p) # ".pdf" THEN "wrong_type"
    ELSE IF c[resolve(p)] = 0 THEN "empty"
    ELSE "ok"

\* the error message of each verdict; None on success
error_message(verdict) == IF verdict = "ok" THEN None ELSE <<"message", verdict>>

\* Path.is_dir() and os.access(path, os.R_OK)
path_is_dir(p) == p \in Directories
os_access(p) == p \notin UnreadableDirectories

\* validate_directory: exists, is a directory, is readable
validate_directory(p) ==
    IF ~path_exists(p) THEN "not_found"
    ELSE IF ~path_is_dir(p) THEN "not_a_directory"
    ELSE IF ~os_access(p) THEN "not_readable"
    ELSE "ok"

\* the entries of each directory
iterdir(d) ==
    IF d = "/docs"
    THEN {"/docs/a.pdf", "/docs/b.pdf", "/docs/notes.txt", "/docs/empty.pdf",
          "/docs/locked.pdf", "/docs/sub"}
    ELSE IF d = "/docs/sub" THEN {"/docs/sub/c.pdf"}
    ELSE IF d = "/papers" THEN {"/papers/p.pdf", "/papers/q.pdf", "/papers/readme.txt"}
    ELSE {}

\* Path.glob("*.pdf"): the immediate entries whose name ends in .pdf
glob(d) == {e \in iterdir(d) : suffix(e) = ".pdf"}

\* ---------------------------------------------------------- tracking store
EmptyMap == [k \in {} |-> None]

\* dict.get(key): None when the key is missing
Get(d, k) == IF k \in DOMAIN d THEN d[k] ELSE None

\* d[key] = value
Put(d, k, v) == [x \in DOMAIN d \cup {k} |-> IF x = k THEN v ELSE d[x]]

\* states of the persisted file: missing; text that is not JSON (also a
\* truncated file); bytes that are not valid text; a file that cannot be
\* opened; a JSON document
Absent == [kind |-> "absent"]
Corrupt == [kind |-> "corrupt"]
Undecodable == [kind |-> "undecodable"]
Unreadable == [kind |-> "unreadable"]

\* JSON encoding of one field value: None is written as null, a string as a
\* quoted string
json_value(v) == IF v = None THEN <<"null">> ELSE <<"string", v>>

\* variant: null is read back as the text "None"
py_value_null_as_text(t) == IF t = <<"null">> THEN <<"None">> ELSE t[2]

\* the Python value json.load builds for one encoded field value
py_value(t) == IF t = <<"null">> THEN None ELSE t[2]

\* json.dump(self._tracked_files, f): an object of objects
json_dump(m) ==
    [kind |-> "json",
     doc |-> [type |-> "object",
              members |-> [k \in DOMAIN m |->
                             [f \in DOMAIN m[k] |-> json_value(m[k][f])]]]]

\* a well-formed JSON document that is an array
JsonArray == [kind |-> "json", doc |-> [type |-> "array"]]
\* the Python list json.load builds for it
PyList == [pytype |-> "list"]

\* a well-formed JSON object whose members are numbers, not objects
JsonNumbers == [kind |-> "json",
                doc |-> [type |-> "object_of_numbers", keys |-> {"/docs/a.pdf"}]]
\* the Python int json.load builds for a number
PyInt == [pytype |-> "int"]

\* json.load(f)
json_load(doc) ==
    IF doc.type = "object"
    THEN [k \in DOMAIN doc.members |->
            [f \in DOMAIN doc.members[k] |-> py_value(doc.members[k][f])]]
    ELSE IF doc.type = "object_of_numbers"
    THEN [k \in doc.keys |-> PyInt]
    ELSE PyList

\* line 41 raises an error that line 42 does not catch: UnicodeDecodeError is
\* neither a JSONDecodeError nor an IOError
_load_tracking_raises(f) == f.kind = "undecodable"

\* _load_tracking when it returns: whatever json.load built, or the empty map
\* for a missing file, a JSONDecodeError or an IOError
_load_tracking(f) == IF f.kind = "json" THEN json_load(f.doc) ELSE EmptyMap

\* _compute_file_hash
_compute_file_hash(p, c) == sha256(c[resolve(p)])

\* variant: the key is the path as spelled, not the resolved path
_is_file_tracked_unresolved(p, c, t) ==
    LET file_hash == _compute_file_hash(p, c)
        file_key == p
    IN  IF file_key \in DOMAIN t
        THEN Get(t[file_key], "hash") = file_hash
        ELSE FALSE

\* variant: an entry for the key is enough, the hash is not compared
_is_file_tracked_key_only(p, c, t) ==
    resolve(p) \in DOMAIN t

\* variant: an entry without a stored hash counts as a match
_is_file_tracked_lenient(p, c, t) ==
    LET file_hash == _compute_file_hash(p, c)
        file_key == resolve(p)
    IN  IF file_key \in DOMAIN t
        THEN Get(t[file_key], "hash") \in {None, file_hash}
        ELSE FALSE

\* _is_file_tracked (the file is readable)
_is_file_tracked(p, c, t) ==
    LET file_hash == _compute_file_hash(p, c)
        file_key == resolve(p)
    IN  IF file_key \in DOMAIN t
        THEN Get(t[file_key], "hash") = file_hash
        ELSE FALSE

\* ------------------------------------------------------------ remote side
StoreHandle == <<"fileSearchStores", 1>>
\* the store returned by file_search_stores.create
CreatedStore == <<"fileSearchStores", 2>>
\* a listed store with another display name whose resource name contains the
\* configured name
OtherStore == <<"fileSearchStores", 3>>
ProcessingStates == {"PROCESSING", "processing"}
FailedStates == {"FAILED", "failed"}
\* states the remote reports for an uploaded file
RemoteFileStates == {"PROCESSING", "ACTIVE", "FAILED"}

DoneStatuses == {"DONE", "done", "SUCCESS", "success"}
FailStatuses == {"FAILED", "failed", "ERROR", "error"}

\* shapes of the import operation object the remote may return
Operations ==
    { o \in [hasDone : BOOLEAN, done : BOOLEAN, hasStatus : BOOLEAN,
             status : {"", "RUNNING", "DONE", "FAILED"}, error : BOOLEAN] :
        /\ (~o.hasDone => ~o.done)
        /\ (o.hasStatus <=> o.status # "") }

\* the shapes explored in sessions of several calls
CoarseOperations ==
    { o \in Operations :
        \/ o.hasDone /\ ~o.hasStatus /\ (o.error => o.done)
        \/ ~o.hasDone /\ o.status = "FAILED" /\ ~o.error }

NoOperation == [hasDone |-> FALSE, done |-> FALSE, hasStatus |-> FALSE,
                status |-> "", error |-> FALSE]
NoFile == [name |-> None, uri |-> None, state |-> "None", content |-> None]

\* handle returned by the n-th files.upload
RemoteFile(n, withUri, s, c) ==
    [name |-> <<"files", n>>, uri |-> IF withUri THEN <<"uri", n>> ELSE None, state |-> s,
     content |-> <<"bytes", c>>]

ZeroCalls == [upload |-> 0, get |-> 0, import |-> 0, opsget |-> 0,
              psleep |-> 0, isleep |-> 0]
NoCall == [key |-> "", result |-> None, recorded |-> FALSE, uploads |-> 0,
           content |-> None]
\* no clear_cache since the last upload_file
NoClear == [returned |-> "none", before |-> 0]

\* no upload_directory yet
NoBatch == [pc |-> "idle", dir |-> "", enumerated |-> <<>>, queue |-> <<>>,
            attempted |-> <<>>, outcomes |-> <<>>, results |-> <<>>, uploads0 |-> 0]
\* no direct validate_pdf_file call yet
NoValidation == [path |-> "", verdict |-> "none", message |-> None]
\* no second manager over the cache directory
NoOther == [loaded |-> FALSE, tracked_files |-> <<>>]
NoRead == [op |-> "none", value |-> None]
\* no command running
NoCommand == [cmd |-> "none", pc |-> "idle", exit_status |-> -1, shown |-> None,
              styled_error |-> FALSE, input |-> None, ended_by |-> "none"]

\* ------------------------------------------------------------- RAG handler
\* errors the remote generation call raises, and the error of an extraction
Errors == {"quota", "network"}
ExtractErrors == {"text_error", "join_error"}

\* shapes of the response of generate_content: a text attribute; a text
\* attribute whose access raises; no text but candidates with content parts;
\* parts of which one has text None; content without parts; a candidate
\* without content; none of these
Responses ==
    [shape : {"text", "text_raises", "parts", "parts_none", "content",
              "candidate", "plain"},
     id : {1}]

\* lines 95-110: the answer extracted from a response, or the error raised
extract_answer(resp) ==
    IF resp.shape = "text" THEN <<"text", resp.id>>
    ELSE IF resp.shape = "text_raises" THEN "text_error"
    ELSE IF resp.shape = "parts" THEN <<"joined parts", resp.id>>
    ELSE IF resp.shape = "parts_none" THEN "join_error"
    ELSE IF resp.shape = "content" THEN <<"str(content)", resp.id>>
    ELSE IF resp.shape = "candidate" THEN <<"str(candidate)", resp.id>>
    ELSE <<"str(response)", resp.id>>

extract_raises(resp) == resp.shape \in {"text_raises", "parts_none"}

NoError == [type |-> "none", cause |-> "none"]
NoResponse == [shape |-> "none", id |-> 0]

\* no RAGHandler call yet
RagIdle ==
    [pc |-> "idle", use_retry |-> FALSE, max_retries |-> 0, retry_delay |-> 0,
     attempt |-> 0, asks |-> 0, generates |-> 0, failures |-> 0,
     sleeps |-> <<>>, errors |-> <<>>, last_exception |-> "none",
     response |-> NoResponse, result |-> None, error |-> NoError,
     store_name |-> None, tool_config |-> "none", tools |-> None,
     via_agent |-> FALSE, agent_result |-> None, agent_raised |-> FALSE]

\* retry_delay when the caller gives none
DefaultRetryDelay == 2

\* file_search_store_name values handed to the handler
StoreNames == {None, StoreHandle, CreatedStore}

\* get_file_search_store_name, file_manager.py lines 352-361
get_file_search_store_name(store) == IF store # None THEN store ELSE None

\* outcomes of building the file search tool, lines 73-85: built, or an
\* AttributeError / TypeError that is logged and swallowed
ToolConfigs == {"ok", "attr_error"}

\* variant: the tool is attached whatever was given
request_tools_unconditional(name, cfg) == <<"file_search", name>>

\* lines 72-85: config.tools of the request
request_tools(name, cfg) ==
    IF name = None THEN None
    ELSE IF cfg = "ok" THEN <<"file_search", name>>
    ELSE None

\* variant: the facade lets the error of its delegate out
agent_boundary_reraises(r) ==
    IF ~r.via_agent THEN r
    ELSE IF r.pc = "raised" THEN [r EXCEPT !.agent_raised = TRUE]
    ELSE IF r.pc = "returned" THEN [r EXCEPT !.agent_result = r.result]
    ELSE r

\* agent.py lines 104-126: what SysMLAgent.ask_question hands back once its
\* delegate has returned or raised
agent_boundary(r) ==
    IF ~r.via_agent THEN r
    ELSE IF r.pc = "raised" THEN [r EXCEPT !.agent_result = <<"Error:", r.error.type>>]
    ELSE IF r.pc = "returned" THEN [r EXCEPT !.agent_result = r.result]
    ELSE r

\* retry_delay values handed to ask_with_retry
RetryDelays == {1, 2}

\* variant: one attempt more than max_retries
loop_continues_inclusive(attempt, n) == attempt <= n

\* line 148: for attempt in range(max_retries)
loop_continues(attempt, n) == attempt < n

\* line 153: a failed attempt is followed by a sleep
sleeps_after(attempt, n) == attempt < n - 1

\* variant: the delay grows with the attempt number
sleep_duration_backoff(delay, attempt) == delay * (attempt + 1)

\* line 157: time.sleep(retry_delay)
sleep_duration(delay, attempt) == delay

\* variant: the first failure is kept
last_exception_first(before, e) == IF before = "none" THEN e ELSE before

\* line 152: last_exception = e
last_exception_after(before, e) == e

\* lines 161-163: raise RuntimeError(...) from last_exception
RuntimeError(cause) == [type |-> "RuntimeError", cause |-> cause]

\* variant: ask_question answers with an empty text instead of raising
ask_question_error_swallowed == "swallow"

\* lines 115-117: ask_question logs the error and raises it again
ask_question_error == "raise"

\* lines 148-150 and 161-163 for the next value of attempt: another
\* ask_question, or the wrapping error
next_attempt(r) ==
    IF loop_continues(r.attempt + 1, r.max_retries)
    THEN [r EXCEPT !.pc = "generate", !.attempt = @ + 1, !.asks = @ + 1]
    ELSE [r EXCEPT !.pc = "raised", !.attempt = @ + 1,
                   !.error = RuntimeError(r.last_exception)]

\* ask_question raised e to its caller: agent.ask_question without retry
\* (line 122), or the except clause of ask_with_retry (lines 151-159)
ask_raised(r, e) ==
    IF ~r.use_retry
    THEN [r EXCEPT !.pc = "raised", !.error = [type |-> e, cause |-> "none"]]
    ELSE LET r1 == [r EXCEPT !.errors = Append(@, e),
                            !.last_exception = last_exception_after(@, e)]
         IN  IF sleeps_after(r.attempt, r.max_retries)
             THEN [r1 EXCEPT !.pc = "sleeping"]
             ELSE next_attempt(r1)

\* something failed inside ask_question, lines 115-117
ask_failed(r, e) ==
    LET r1 == [r EXCEPT !.failures = @ + 1, !.response = NoResponse]
    IN  IF ask_question_error = "raise"
        THEN ask_raised(r1, e)
        ELSE [r1 EXCEPT !.pc = "returned", !.result = <<"text", 0>>]

\* ------------------------------------------------------------ initial state
\* tracking files a previous session may have left in the cache directory
OldEntry == [name |-> <<"files", 0>>, uri |-> <<"uri", 0>>, hash |-> sha256(1),
             upload_date |-> <<"date", 0>>, original_path |-> str("/docs/a.pdf"),
             store_name |-> None]
InitialTrackingFiles ==
    { Absent, Corrupt,
      json_dump([k \in {"/docs/a.pdf"} |-> OldEntry]),
      json_dump([k \in {"/docs/a.pdf"} |-> [uri |-> <<"uri", 0>>, hash |-> sha256(1)]]),
      json_dump([k \in {"/docs/a.pdf"} |-> [name |-> <<"files", 0>>, uri |-> <<"uri", 0>>]]) }

InitialContent == [f \in RegularFiles |-> IF f = "/docs/empty.pdf" THEN 0 ELSE 1]

\* answers of the remote to the construction: file_search_stores.list (the
\* method is missing, raises, lists no matching store, lists a store matching
\* by display name or by resource name, or lists a store matching by resource
\* name ahead of the one matching by display name), then create and get when
\* reached
ListAnswers == {"no_attr", "raise", "no_match", "match_display", "match_name",
                "name_before_display"}

\* lines 65-75: the store at which the loop over the listing returns, the
\* first one whose display name is the configured name or whose resource name
\* contains it; None when the loop ends or the listing fails
listing_match(l) ==
    IF l \in {"match_display", "match_name"} THEN StoreHandle
    ELSE IF l = "name_before_display" THEN OtherStore
    ELSE None

InitAnswers ==
    { a \in [list : ListAnswers,
             create : {"skip", "ok", "raise"},
             get : {"skip", "no_attr", "ok", "raise"}] :
        /\ (a.create = "skip") <=> (listing_match(a.list) # None)
        /\ (a.get = "skip") <=> (a.create # "raise") }

\* the answers explored in sessions of several calls: every attempt fails, or
\* the store is found in the listing
SessionAnswers ==
    { [list |-> "raise", create |-> "raise", get |-> "raise"],
      [list |-> "match_display", create |-> "skip", get |-> "skip"] }

\* _initialize_file_search_store, lines 56-106: the handle left in
\* self.file_search_store
_initialize_file_search_store(a) ==
    IF listing_match(a.list) # None THEN listing_match(a.list)
    ELSE IF a.create = "ok" THEN CreatedStore
    ELSE IF a.get = "ok" THEN StoreHandle
    ELSE None

\* the remote calls of _initialize_file_search_store: list when the method
\* exists (line 65), create when the loop did not return (line 83), get when
\* create raised and the method exists (lines 93-94)
store_init_calls(a) ==
    [list |-> IF a.list = "no_attr" THEN 0 ELSE 1,
     create |-> IF listing_match(a.list) # None THEN 0 ELSE 1,
     get |-> IF listing_match(a.list) = None /\ a.create = "raise"
                                            /\ a.get # "no_attr"
             THEN 1 ELSE 0]

\* lines 102-106: every error of the step is caught and the handle set to None
store_init_raises(a) == FALSE

\* FileManager.__init__ against one of the given remote answers
ConstructedOver(answers, contents) ==
    /\ content \in contents
    /\ tracking_file \in InitialTrackingFiles
    /\ tracked_files = _load_tracking(tracking_file)
    /\ store_init \in answers
    /\ file_search_store = _initialize_file_search_store(store_init)
    /\ has_operations \in BOOLEAN
    /\ pc = "idle"
    /\ path = ""
    /\ is_valid = FALSE
    /\ is_tracked = FALSE
    /\ uploaded_file = NoFile
    /\ operation = NoOperation
    /\ wait_time = 0
    /\ result = None
    /\ raised = FALSE
    /\ calls = ZeroCalls
    /\ exit_by = "none"
    /\ remote_err = {}
    /\ track_fail = "none"
    /\ recorded = FALSE
    /\ op_failure = FALSE
    /\ nUpload = 0
    /\ tracked0 = tracked_files
    /\ disk0 = tracking_file
    /\ cache_cleared = NoClear
    /\ last = NoCall
    /\ prev = NoCall
    /\ rag = RagIdle
    /\ batch = NoBatch
    /\ validation = NoValidation
    /\ cli = NoCommand
    /\ other = NoOther
    /\ read = NoRead

\* the state after construction over the files as first found on disk
Constructed(answers) == ConstructedOver(answers, {InitialContent})

Init == Constructed(SessionAnswers)

\* ------------------------------------------------- decisions of upload_file
\* variant: the result of the validation is not looked at
after_validate_unchecked(valid) == "check"

\* lines 142-145: a failed validation returns None, otherwise the tracked check runs
after_validate(valid) == IF valid THEN "check" ELSE "done"

\* variant: the import is requested whether or not a store handle exists
after_state_always_import(s, store) ==
    IF s \in ProcessingStates THEN "proc_sleep"
    ELSE IF s \in FailedStates THEN "fail"
    ELSE "import"

\* variant: no wait for the processing state to end
after_state_no_wait(s, store) ==
    IF s \in FailedStates THEN "fail"
    ELSE IF store # None THEN "import"
    ELSE "track"

\* lines 182-194: the processing wait continues, the call fails, or it goes on
after_state(s, store) ==
    IF s \in ProcessingStates THEN "proc_sleep"
    ELSE IF s \in FailedStates THEN "fail"
    ELSE IF store # None THEN "import"
    ELSE "track"

\* variant: the ceiling test is "<=" instead of "<"
loop_head_inclusive(op, wt) ==
    IF ~(wt <= max_wait_time) THEN "exit"
    ELSE IF op.hasDone THEN (IF op.done THEN "exit" ELSE "sleep")
    ELSE IF op.hasStatus
         THEN (IF op.status \in DoneStatuses THEN "exit"
               ELSE IF op.status \in FailStatuses THEN "fail"
               ELSE "sleep")
    ELSE "sleep"

\* lines 208-221: one evaluation of the head of the import wait
loop_head(op, wt) ==
    IF ~(wt < max_wait_time) THEN "exit"
    ELSE IF op.hasDone THEN (IF op.done THEN "exit" ELSE "sleep")
    ELSE IF op.hasStatus
         THEN (IF op.status \in DoneStatuses THEN "exit"
               ELSE IF op.status \in FailStatuses THEN "fail"
               ELSE "sleep")
    ELSE "sleep"

\* lines 239-248: final check for errors after the import wait
final_check(op) ==
    IF op.error THEN "fail"
    ELSE IF op.hasStatus /\ op.status \in FailStatuses THEN "fail"
    ELSE "ok"

\* the operation carries an explicit failure status or a non-empty error
carries_failure(op) ==
    \/ op.error
    \/ op.hasStatus /\ op.status \in FailStatuses

\* the loop head followed, when the loop is left, by the final check
after_operation(op, wt) ==
    LET h == loop_head(op, wt)
    IN  IF h = "sleep" THEN "imp_sleep"
        ELSE IF h = "fail" THEN "fail"
        ELSE IF final_check(op) = "fail" THEN "fail"
        ELSE "track"

\* variant: an operation that cannot be refreshed fails the upload
after_break_fails(op) == "fail"

\* lines 224, 228-237: the refresh failed or is impossible, the loop is left
after_break(op) == IF final_check(op) = "fail" THEN "fail" ELSE "track"

\* variant: an error of the import request fails the upload
after_import_error_fails == "fail"

\* lines 253-254: an error of the import request is logged and the upload goes on
after_import_error == "track"

\* lines 260-261: name and uri taken from the remote handle
file_name_of(h) == h.name
file_uri_of(h) == IF h.uri # None THEN h.uri ELSE file_name_of(h)

\* lines 263-270: the entry recorded for an upload
new_entry(h, p, c, store, now) ==
    [name |-> file_name_of(h),
     uri |-> file_uri_of(h),
     hash |-> _compute_file_hash(p, c),
     upload_date |-> <<"date", now>>,
     original_path |-> str(p),
     store_name |-> store]

\* saturating per-call counter of the processing wait
Bump(n) == Min(n + 1, MaxPolls)

\* ----------------------------------------------------------------- actions
\* what no FileManager operation changes
cfgVars == <<file_search_store, has_operations, store_init, rag, batch, validation,
            cli, other, read>>
storeVars == <<tracked_files, tracking_file>>
snapVars == <<tracked0, disk0, prev, cache_cleared>>

\* the call returns None (or lets an exception out when exc is TRUE)
ReturnNone(exc) ==
    /\ pc' = "done"
    /\ result' = None
    /\ raised' = exc

\* the position reached after a remote answer: a failure ends the call
Goto(where) ==
    IF where = "fail"
    THEN ReturnNone(FALSE)
    ELSE /\ pc' = where
         /\ UNCHANGED <<result, raised>>

\* what is remembered of the counters once the call has returned: whether a
\* call of each kind was issued (files.upload and import_file are exact)
Clamp(c) == [k \in DOMAIN c |-> Min(c[k], 1)]

\* the counters after a step; the locals of the call die when it returns
Locals(c, op, wt) ==
    /\ calls' = IF pc' = "done" THEN Clamp(c) ELSE c
    /\ operation' = IF pc' = "done" THEN NoOperation ELSE op
    /\ wait_time' = IF pc' = "done" THEN 0 ELSE wt

\* bookkeeping: when the call returns, remember it if it recorded an upload
RecordLast ==
    last' = IF pc' = "done"
            THEN IF recorded'
                 THEN [key |-> resolve(path'), result |-> result',
                       recorded |-> recorded', uploads |-> calls'.upload,
                       content |-> content']
                 ELSE NoCall
            ELSE last

\* how the import wait is left with operation op at wait_time wt: on a failure
\* status seen by the loop head ("fail"), on completion ("done"), or at the
\* ceiling with an operation the loop would otherwise keep waiting for
\* ("ceiling"); "_err" when the final check then fails
exit_kind(op, wt) ==
    IF loop_head(op, wt) = "fail" THEN "fail"
    ELSE IF wt < max_wait_time \/ loop_head(op, 0) = "exit"
         THEN (IF final_check(op) = "fail" THEN "done_err" ELSE "done")
    ELSE (IF final_check(op) = "fail" THEN "ceiling_err" ELSE "ceiling")

\* the call would, as things stand, submit the file to the remote
would_upload(p) ==
    /\ validate_pdf_file(p, content) = "ok"
    /\ readable(p)
    /\ ~_is_file_tracked(p, content, tracked_files)

\* upload_file up to the remote submission, lines 139-154: validate_pdf_file,
\* the tracked check and the short circuit; a call that would submit a file
\* starts only while the session has uploads left
Begin(p) ==
    /\ pc \in {"idle", "done"}
    /\ would_upload(p) => nUpload < MaxUploads
    /\ path' = p
    /\ is_valid' = (validate_pdf_file(p, content) = "ok")
    /\ uploaded_file' = NoFile
    /\ exit_by' = "none"
    /\ remote_err' = {}
    /\ track_fail' = "none"
    /\ recorded' = FALSE
    /\ op_failure' = FALSE
    /\ tracked0' = tracked_files
    /\ disk0' = tracking_file
    /\ cache_cleared' = NoClear
    /\ prev' = last
    /\ IF after_validate(is_valid') = "done"
       THEN /\ ReturnNone(FALSE)
            /\ is_tracked' = FALSE
       ELSE IF ~readable(p)
       THEN \* _compute_file_hash raises outside the try block
            /\ ReturnNone(TRUE)
            /\ is_tracked' = FALSE
       ELSE /\ is_tracked' = _is_file_tracked(p, content, tracked_files)
            /\ IF is_tracked'
               THEN LET e == tracked_files[resolve(p)]
                    IN  IF {"name", "uri"} \subseteq DOMAIN e
                        THEN /\ pc' = "done"
                             /\ result' = [name |-> e.name, uri |-> e.uri]
                             /\ raised' = FALSE
                        ELSE \* KeyError outside the try block
                             ReturnNone(TRUE)
               ELSE /\ pc' = "upload"
                    /\ result' = None
                    /\ raised' = FALSE
    /\ Locals(ZeroCalls, NoOperation, 0)
    /\ UNCHANGED <<content, storeVars, cfgVars, nUpload>>
    /\ RecordLast

\* client.files.upload, lines 156-172, then the loop head and the failure check
Submit(withUris) ==
    /\ pc = "upload"
    /\ nUpload' = nUpload + 1
    /\ \/ /\ remote_err' = remote_err \cup {"upload"}
          /\ ReturnNone(FALSE)
          /\ UNCHANGED uploaded_file
       \/ \E s \in RemoteFileStates, withUri \in withUris :
            /\ uploaded_file' = RemoteFile(nUpload', withUri, s, content[resolve(path)])
            /\ Goto(after_state(s, file_search_store))
            /\ UNCHANGED remote_err
    /\ Locals([calls EXCEPT !.upload = @ + 1], operation, wait_time)
    /\ UNCHANGED <<content, storeVars, cfgVars, snapVars, path, is_valid, is_tracked,
                   exit_by, track_fail, recorded, op_failure>>
    /\ RecordLast

\* time.sleep(2) of the processing wait, line 183
ProcSleep ==
    /\ pc = "proc_sleep"
    /\ pc' = "proc_get"
    /\ calls' = [calls EXCEPT !.psleep = Bump(@)]
    /\ UNCHANGED <<content, storeVars, cfgVars, snapVars, nUpload, path, is_valid,
                   is_tracked, uploaded_file, operation, wait_time, result, raised,
                   exit_by, remote_err, track_fail, recorded, op_failure, last>>

\* client.files.get of the processing wait, lines 184-191; when bounded, the
\* remote leaves the processing state after at most MaxPolls polls
ProcGet(bounded) ==
    /\ pc = "proc_get"
    /\ \/ /\ remote_err' = remote_err \cup {"get"}
          /\ ReturnNone(FALSE)
          /\ UNCHANGED uploaded_file
       \/ \E s \in RemoteFileStates :
            /\ (bounded /\ s \in ProcessingStates) => calls.get + 1 < MaxPolls
            /\ uploaded_file' = [uploaded_file EXCEPT !.state = s]
            /\ Goto(after_state(s, file_search_store))
            /\ UNCHANGED remote_err
    /\ Locals([calls EXCEPT !.get = Bump(@)], operation, wait_time)
    /\ UNCHANGED <<content, storeVars, cfgVars, snapVars, nUpload, path, is_valid,
                   is_tracked, exit_by, track_fail, recorded, op_failure>>
    /\ RecordLast

\* file_search_stores.import_file, lines 194-221 and 239-254
ImportFile(ops) ==
    /\ pc = "import"
    /\ \/ \* the request raises: caught at line 253, the upload goes on
          /\ remote_err' = remote_err \cup {"import"}
          /\ Goto(after_import_error)
          /\ Locals([calls EXCEPT !.import = @ + 1], operation, 0)
          /\ UNCHANGED <<exit_by, op_failure>>
       \/ \E op \in ops :
            /\ Goto(after_operation(op, 0))
            /\ Locals([calls EXCEPT !.import = @ + 1], op, 0)
            /\ exit_by' = IF after_operation(op, 0) = "imp_sleep" THEN exit_by
                          ELSE exit_kind(op, 0)
            /\ op_failure' = carries_failure(op)
            /\ UNCHANGED remote_err
    /\ UNCHANGED <<content, storeVars, cfgVars, snapVars, nUpload, path, is_valid,
                   is_tracked, uploaded_file, track_fail, recorded>>
    /\ RecordLast

\* time.sleep(2); wait_time += 2, lines 223-224
ImportSleep ==
    /\ pc = "imp_sleep"
    /\ pc' = "imp_refresh"
    /\ wait_time' = wait_time + SleepUnit
    /\ calls' = [calls EXCEPT !.isleep = @ + 1]
    /\ UNCHANGED <<content, storeVars, cfgVars, snapVars, nUpload, path, is_valid,
                   is_tracked, uploaded_file, operation, result, raised, exit_by,
                   remote_err, track_fail, recorded, op_failure, last>>

\* refresh of the operation, lines 226-237, then the loop head / final check;
\* when bounded, the remote stops answering "still running" after MaxPolls
\* refreshes
ImportRefresh(bounded, ops) ==
    /\ pc = "imp_refresh"
    /\ IF has_operations
       THEN \/ /\ remote_err' = remote_err \cup {"opsget"}
               /\ Goto(after_break(operation))
               /\ Locals([calls EXCEPT !.opsget = @ + 1], operation, wait_time)
               /\ exit_by' = IF after_break(operation) = "fail" THEN "break_err"
                             ELSE "break"
               /\ UNCHANGED op_failure
            \/ \E op \in ops :
                 /\ (bounded /\ after_operation(op, wait_time) = "imp_sleep")
                       => calls.opsget + 1 < MaxPolls
                 /\ Goto(after_operation(op, wait_time))
                 /\ Locals([calls EXCEPT !.opsget = @ + 1], op, wait_time)
                 /\ exit_by' = IF after_operation(op, wait_time) = "imp_sleep"
                               THEN exit_by
                               ELSE exit_kind(op, wait_time)
                 /\ op_failure' = (op_failure \/ carries_failure(op))
                 /\ UNCHANGED remote_err
       ELSE /\ Goto(after_break(operation))
            /\ Locals(calls, operation, wait_time)
            /\ exit_by' = IF after_break(operation) = "fail" THEN "break_err"
                          ELSE "break"
            /\ UNCHANGED <<remote_err, op_failure>>
    /\ UNCHANGED <<content, storeVars, cfgVars, snapVars, nUpload, path, is_valid,
                   is_tracked, uploaded_file, track_fail, recorded>>
    /\ RecordLast

\* outcomes of _save_tracking: written; IOError before the file is opened;
\* IOError after it was truncated; an error that is not an IOError (json.dump)
SaveOutcomes == {"ok", "io_before", "io_partial", "raise"}

\* _save_tracking, lines 47-54
_save_tracking(m, f, outcome) ==
    IF outcome = "ok" THEN json_dump(m)
    ELSE IF outcome = "io_before" THEN f
    ELSE Corrupt

\* the record step, lines 256-281
Track ==
    /\ pc = "track"
    /\ \E outcome \in SaveOutcomes :
         LET e == new_entry(uploaded_file, path, content,
                            file_search_store, nUpload)
             m == Put(tracked_files, resolve(path), e)
         IN  /\ tracked_files' = m
             /\ tracking_file' = _save_tracking(m, tracking_file, outcome)
             /\ track_fail' = IF outcome = "ok" THEN "none" ELSE outcome
             /\ recorded' = (outcome # "raise")
             /\ result' = IF outcome = "raise" THEN None
                          ELSE [name |-> e.name, uri |-> e.uri]
    /\ pc' = "done"
    /\ raised' = FALSE
    /\ Locals(calls, operation, wait_time)
    /\ UNCHANGED <<content, cfgVars, snapVars, nUpload, path, is_valid, is_tracked,
                   uploaded_file, exit_by, remote_err, op_failure>>
    /\ RecordLast

\* variant: an entry lacking a field is skipped instead of given the defaults
list_files_complete(t) ==
    [k \in {x \in DOMAIN t :
               {"original_path", "name", "uri", "upload_date"} \subseteq DOMAIN t[x]} |->
        [original_path |-> t[k].original_path, name |-> t[k].name,
         uri |-> t[k].uri, upload_date |-> t[k].upload_date]]

\* list_files, lines 318-333: one item per entry, with the defaults of .get()
list_files(t) ==
    [k \in DOMAIN t |->
        [original_path |-> IF "original_path" \in DOMAIN t[k]
                           THEN t[k].original_path ELSE str(k),
         name |-> IF "name" \in DOMAIN t[k] THEN t[k].name ELSE <<"Unknown">>,
         uri |-> IF "uri" \in DOMAIN t[k] THEN t[k].uri ELSE <<"Unknown">>,
         upload_date |-> IF "upload_date" \in DOMAIN t[k]
                         THEN t[k].upload_date ELSE <<"Unknown">>]]

\* SysMLAgent.get_file_count: len(list_files())
get_file_count(t) == Cardinality(DOMAIN list_files(t))

\* lines 326-328 raise AttributeError: the loaded value has no items(), or an
\* entry has no get()
list_files_raises(t) ==
    IF "pytype" \in DOMAIN t THEN TRUE
    ELSE \E k \in DOMAIN t : "pytype" \in DOMAIN t[k]

\* SysMLAgent.list_files, agent.py lines 81-85: an error gives the empty list
agent_list_files(t) == IF list_files_raises(t) THEN EmptyMap ELSE list_files(t)

\* get_file_uris, lines 363-374: the uri of every entry that has a truthy one
get_file_uris(t) ==
    [k \in {x \in DOMAIN t : "uri" \in DOMAIN t[x] /\ t[x].uri # None} |-> t[k].uri]

\* variant: the map is emptied before the file is removed
clear_cache_map_first(t, removed) == EmptyMap

\* lines 343-345: the map after clear_cache; it is emptied only once the file
\* is gone (there was none, or unlink succeeded)
clear_cache_map(t, removed) == IF removed THEN EmptyMap ELSE t

\* lines 347, 350: the value returned by clear_cache
clear_cache_result(removed) == IF removed THEN "True" ELSE "False"

\* clear_cache, lines 335-350; what the last upload_file returned is forgotten
ClearCache ==
    /\ pc \in {"idle", "done"}
    /\ \E removed \in BOOLEAN :
         \* unlink can only fail on a file that exists
         /\ ~removed => tracking_file # Absent
         /\ tracking_file' = IF removed THEN Absent ELSE tracking_file
         /\ tracked_files' = clear_cache_map(tracked_files, removed)
         /\ cache_cleared' = [returned |-> clear_cache_result(removed),
                              before |-> Cardinality(DOMAIN tracked_files)]
    /\ pc' = "idle"
    /\ path' = ""
    /\ is_valid' = FALSE
    /\ is_tracked' = FALSE
    /\ uploaded_file' = NoFile
    /\ operation' = NoOperation
    /\ wait_time' = 0
    /\ result' = None
    /\ raised' = FALSE
    /\ calls' = ZeroCalls
    /\ exit_by' = "none"
    /\ remote_err' = {}
    /\ track_fail' = "none"
    /\ recorded' = FALSE
    /\ op_failure' = FALSE
    /\ tracked0' = tracked_files'
    /\ disk0' = tracking_file'
    /\ last' = NoCall
    /\ prev' = NoCall
    /\ UNCHANGED <<content, cfgVars, nUpload>>

\* another actor rewrites a PDF on disk
ModifyFile(f, c) ==
    /\ f \in MutableFiles
    /\ c # content[f]
    /\ content' = [content EXCEPT ![f] = c]
    /\ UNCHANGED <<storeVars, cfgVars, snapVars, nUpload, pc, path, is_valid,
                   is_tracked, uploaded_file, operation, wait_time, result, raised,
                   calls, exit_by, remote_err, track_fail, recorded, op_failure, last>>

\* one step of a running upload_file against a remote that answers in time
UploadStep ==
    \/ Submit({TRUE})
    \/ ProcSleep
    \/ ProcGet(TRUE)
    \/ ImportFile(CoarseOperations)
    \/ ImportSleep
    \/ ImportRefresh(TRUE, CoarseOperations)
    \/ Track

Next ==
    \/ \E p \in Paths : Begin(p)
    \/ UploadStep
    \/ ClearCache
    \/ \E f \in MutableFiles, c \in Contents \ {0} : ModifyFile(f, c)

Spec == Init /\ [][Next]_vars

\* ---------------------------------------------- the two waits, remote unbounded
\* a fresh session and a single upload of one valid file, against a remote that
\* may report "processing" / "still running" for ever and returns any shape of
\* file handle and operation
InitWait ==
    /\ Init
    /\ tracking_file = Absent
    /\ file_search_store = StoreHandle

BeginWait ==
    /\ pc = "idle"
    /\ Begin("/docs/a.pdf")

UploadStepWait ==
    \/ Submit(BOOLEAN)
    \/ ProcSleep
    \/ ProcGet(FALSE)
    \/ ImportFile(Operations)
    \/ ImportSleep
    \/ ImportRefresh(FALSE, Operations)
    \/ Track

NextWait ==
    \/ BeginWait
    \/ UploadStepWait

SpecWait == InitWait /\ [][NextWait]_vars

\* the running call always takes its next step; the remote is not constrained
FairSpecWait == SpecWait /\ WF_vars(UploadStepWait)

\* ------------------------------------------- construction, then one upload
\* every answer of the remote to the construction, then a single upload_file
InitConstruct == Constructed(InitAnswers)

BeginConstruct ==
    /\ pc = "idle"
    /\ \E p \in Paths : Begin(p)

NextConstruct ==
    \/ BeginConstruct
    \/ UploadStep

SpecConstruct == InitConstruct /\ [][NextConstruct]_vars

\* ------------------------------------------- the tracking file, save and load
\* entries and maps given to _save_tracking, persisted forms given to
\* _load_tracking
ImportedEntry == [OldEntry EXCEPT !.store_name = StoreHandle, !.hash = sha256(2)]
StoreEntries ==
    { OldEntry,
      ImportedEntry,
      [uri |-> <<"uri", 0>>, hash |-> sha256(1)] }
StoreKeys == {"/docs/a.pdf", "/docs/b.pdf"}
StoreMaps ==
    UNION { [ks -> StoreEntries] : ks \in SUBSET StoreKeys }
PersistedForms ==
    {Absent, Corrupt, Undecodable, Unreadable, JsonArray, JsonNumbers}
        \cup { json_dump(m) : m \in StoreMaps }

\* a manager holding any map over a cache directory holding any file
InitStore ==
    /\ content = InitialContent
    /\ tracking_file \in PersistedForms
    /\ tracked_files \in StoreMaps
    /\ store_init \in { a \in SessionAnswers : a.list = "raise" }
    /\ file_search_store = _initialize_file_search_store(store_init)
    /\ has_operations = FALSE
    /\ pc = "idle"
    /\ path = ""
    /\ is_valid = FALSE
    /\ is_tracked = FALSE
    /\ uploaded_file = NoFile
    /\ operation = NoOperation
    /\ wait_time = 0
    /\ result = None
    /\ raised = FALSE
    /\ calls = ZeroCalls
    /\ exit_by = "none"
    /\ remote_err = {}
    /\ track_fail = "none"
    /\ recorded = FALSE
    /\ op_failure = FALSE
    /\ nUpload = 0
    /\ tracked0 = tracked_files
    /\ disk0 = tracking_file
    /\ cache_cleared = NoClear
    /\ last = NoCall
    /\ prev = NoCall
    /\ rag = RagIdle
    /\ batch = NoBatch
    /\ validation = NoValidation
    /\ cli = NoCommand
    /\ other = NoOther
    /\ read = NoRead

\* _save_tracking of the map held, lines 47-54
SaveTracking ==
    /\ pc = "idle"
    /\ \E outcome \in SaveOutcomes :
         /\ tracking_file' = _save_tracking(tracked_files, tracking_file, outcome)
         /\ track_fail' = IF outcome = "ok" THEN "none" ELSE outcome
         /\ raised' = (outcome = "raise")
    /\ pc' = "saved"
    /\ UNCHANGED <<content, tracked_files, cfgVars, snapVars, nUpload, path, is_valid,
                   is_tracked, uploaded_file, operation, wait_time, result, calls,
                   exit_by, remote_err, recorded, op_failure, last>>

\* self._tracked_files = self._load_tracking(), lines 32 and 36-45
LoadTracking ==
    /\ pc \in {"idle", "saved"}
    /\ ~raised
    /\ pc' = IF pc = "idle" THEN "loaded" ELSE "reloaded"
    /\ IF _load_tracking_raises(tracking_file)
       THEN /\ raised' = TRUE
            /\ UNCHANGED tracked_files
       ELSE /\ raised' = FALSE
            /\ tracked_files' = _load_tracking(tracking_file)
    /\ UNCHANGED <<content, tracking_file, cfgVars, snapVars, nUpload, path, is_valid,
                   is_tracked, uploaded_file, operation, wait_time, result, calls,
                   exit_by, remote_err, track_fail, recorded, op_failure, last>>

\* SysMLAgent.list_files on the manager just constructed
AgentListFiles ==
    /\ pc \in {"loaded", "reloaded"}
    /\ ~raised
    /\ pc' = "listed"
    /\ result' = [items |-> agent_list_files(tracked_files)]
    /\ raised' = FALSE
    /\ UNCHANGED <<content, storeVars, cfgVars, snapVars, nUpload, path, is_valid,
                   is_tracked, uploaded_file, operation, wait_time, calls,
                   exit_by, remote_err, track_fail, recorded, op_failure, last>>

\* SysMLAgent.get_file_count, agent.py line 148: FileManager.list_files is
\* called with no try block around it
AgentGetFileCount ==
    /\ pc \in {"loaded", "reloaded"}
    /\ ~raised
    /\ pc' = "counted"
    /\ IF list_files_raises(tracked_files)
       THEN /\ raised' = TRUE
            /\ UNCHANGED result
       ELSE /\ raised' = FALSE
            /\ result' = [count |-> get_file_count(tracked_files)]
    /\ UNCHANGED <<content, storeVars, cfgVars, snapVars, nUpload, path, is_valid,
                   is_tracked, uploaded_file, operation, wait_time, calls,
                   exit_by, remote_err, track_fail, recorded, op_failure, last>>

NextStore ==
    \/ SaveTracking
    \/ LoadTracking
    \/ AgentListFiles
    \/ AgentGetFileCount

SpecStore == InitStore /\ [][NextStore]_vars

\* ------------------------------------------------- questions, with retries
fmVars == <<content, tracked_files, tracking_file, file_search_store, has_operations,
            store_init, pc, path, is_valid, is_tracked, uploaded_file, operation,
            wait_time, result, raised, calls, exit_by, remote_err, track_fail,
            recorded, op_failure, nUpload, tracked0, disk0, cache_cleared, last,
            prev, batch, validation, other, read>>

\* the call as it starts: ask_with_retry (lines 146-150; with no attempt to
\* make the loop is skipped and line 161 raises) or ask_question
started(r) ==
    IF ~r.use_retry THEN [r EXCEPT !.pc = "generate", !.asks = 1]
    ELSE IF loop_continues(0, r.max_retries)
         THEN [r EXCEPT !.pc = "generate", !.asks = 1]
         ELSE [r EXCEPT !.pc = "raised", !.error = RuntimeError(r.last_exception)]

\* ask_with_retry(question, name, max_retries = n, retry_delay = d)
AskWithRetry(n, d) ==
    /\ rag.pc = "idle"
    /\ \E name \in StoreNames :
         rag' = started([RagIdle EXCEPT !.use_retry = TRUE, !.max_retries = n,
                                        !.retry_delay = d, !.store_name = name])
    /\ UNCHANGED <<fmVars, cli>>

\* ask_question(question, name) called on the handler
AskQuestion ==
    /\ rag.pc = "idle"
    /\ \E name \in StoreNames :
         rag' = started([RagIdle EXCEPT !.store_name = name])
    /\ UNCHANGED <<fmVars, cli>>

\* SysMLAgent.ask_question(question, use_retry, max_retries = n), agent.py
\* lines 104-122: the store name is asked of the file manager
agent_ask(use_retry, n) ==
    agent_boundary(started(
        [RagIdle EXCEPT !.via_agent = TRUE,
                        !.use_retry = use_retry,
                        !.max_retries = IF use_retry THEN n ELSE 0,
                        !.retry_delay = IF use_retry THEN DefaultRetryDelay ELSE 0,
                        !.store_name = get_file_search_store_name(file_search_store)]))

AgentAsk(use_retry, n) ==
    /\ rag.pc = "idle"
    /\ rag' = agent_ask(use_retry, n)
    /\ UNCHANGED <<fmVars, cli>>

\* client.models.generate_content, lines 71-91
Generate ==
    /\ rag.pc = "generate"
    /\ \E cfg \in ToolConfigs :
         LET r == [rag EXCEPT !.generates = @ + 1,
                              !.tool_config = IF rag.store_name = None THEN "none"
                                              ELSE cfg,
                              !.tools = request_tools(rag.store_name, cfg)]
         IN  \/ \E e \in Errors : rag' = agent_boundary(ask_failed(r, e))
             \/ \E resp \in Responses :
                   rag' = [r EXCEPT !.pc = "extract", !.response = resp]
    /\ UNCHANGED <<fmVars, cli>>

\* extraction of the answer and return, lines 93-113
Extract ==
    /\ rag.pc = "extract"
    /\ rag' = agent_boundary(
                 IF extract_raises(rag.response)
                 THEN ask_failed(rag, extract_answer(rag.response))
                 ELSE [rag EXCEPT !.pc = "returned",
                                  !.result = extract_answer(rag.response)])
    /\ UNCHANGED <<fmVars, cli>>

\* time.sleep(retry_delay), line 157, then the next turn of the loop
RetrySleep ==
    /\ rag.pc = "sleeping"
    /\ rag' = agent_boundary(next_attempt(
                 [rag EXCEPT !.sleeps =
                     Append(@, sleep_duration(rag.retry_delay, rag.attempt))]))
    /\ UNCHANGED <<fmVars, cli>>

InitRetry ==
    /\ Init
    /\ tracking_file = Absent
    /\ has_operations = FALSE

NextRetry ==
    \/ \E n \in (-1)..MaxRetries, d \in RetryDelays : AskWithRetry(n, d)
    \/ AskQuestion
    \/ \E use_retry \in BOOLEAN, n \in 0..MaxRetries : AgentAsk(use_retry, n)
    \/ Generate
    \/ Extract
    \/ RetrySleep

SpecRetry == InitRetry /\ [][NextRetry]_vars

\* ---------------------------------------------------------- upload_directory
\* the orders in which the directory listing may hand out a set of entries
Perms(S) ==
    {q \in [1..Cardinality(S) -> S] :
        \A i, j \in 1..Cardinality(S) : i # j => q[i] # q[j]}

\* variant: every result is collected
collects_all(res) == TRUE

\* line 312, `if result:`
collects(res) == res # None

\* SysMLAgent.upload_directory, agent.py lines 68-72: the list returned, or the
\* empty list when upload_directory raised
agent_upload_directory(b) == IF b.pc = "raised" THEN <<>> ELSE b.results

\* the directories handed to upload_directory
BatchDirs == {"/docs", "/papers", "/empty", "/private", "/missing", "/docs/a.pdf"}

\* upload_directory up to the loop, lines 296-308: validate_directory, the
\* listing, and the two early returns
BatchStart(d) ==
    /\ batch.pc \in {"idle", "returned", "raised"}
    /\ pc \in {"idle", "done"}
    /\ pc' = "idle"
    /\ IF validate_directory(d) # "ok" \/ glob(d) = {}
       THEN batch' = [NoBatch EXCEPT !.pc = "returned", !.dir = d,
                                     !.uploads0 = nUpload]
       ELSE \E order \in Perms(glob(d)) :
              batch' = [NoBatch EXCEPT !.pc = "loop", !.dir = d,
                                       !.enumerated = order, !.queue = order,
                                       !.uploads0 = nUpload]
    /\ UNCHANGED <<content, storeVars, file_search_store, has_operations, store_init,
                   rag, validation, cli, other, read, snapVars, nUpload, path, is_valid,
                   is_tracked, uploaded_file, operation, wait_time, result, raised,
                   calls, exit_by, remote_err, track_fail, recorded, op_failure, last>>

\* line 311: upload_file on the next entry of the listing
BatchCall ==
    /\ batch.pc = "loop"
    /\ pc = "idle"
    /\ Begin(Head(batch.queue))

\* lines 311-316: the call has ended; an exception leaves upload_directory,
\* otherwise the result is collected and the loop goes on or the list is returned
BatchCollect ==
    /\ batch.pc = "loop"
    /\ pc = "done"
    /\ LET rest == Tail(batch.queue)
           seen == [batch EXCEPT !.queue = rest,
                                 !.attempted = Append(@, Head(batch.queue)),
                                 !.outcomes = Append(@, result)]
       IN  IF raised
           THEN /\ batch' = [seen EXCEPT !.pc = "raised"]
                /\ pc' = pc
           ELSE /\ batch' = [seen EXCEPT
                                !.results = IF collects(result)
                                            THEN Append(@, result) ELSE @,
                                !.pc = IF rest = <<>> THEN "returned" ELSE "loop"]
                /\ pc' = IF rest = <<>> THEN pc ELSE "idle"
    /\ UNCHANGED <<content, storeVars, file_search_store, has_operations, store_init,
                   rag, validation, cli, other, read, snapVars, nUpload, path, is_valid,
                   is_tracked, uploaded_file, operation, wait_time, result, raised,
                   calls, exit_by, remote_err, track_fail, recorded, op_failure, last>>

InitBatch ==
    /\ Init
    /\ tracking_file = Absent
    /\ has_operations = FALSE

NextBatch ==
    \/ \E d \in BatchDirs : BatchStart(d)
    \/ BatchCall
    \/ UploadStep
    \/ BatchCollect

SpecBatch == InitBatch /\ [][NextBatch]_vars

\* ------------------------------------------- sessions over one cache directory
\* the paths uploaded in these sessions
SessionPaths == {"/docs/a.pdf", "a.pdf", "/docs/b.pdf"}

\* a later invocation: FileManager.__init__ (lines 22-34) in a new process
\* over the same cache directory; the map is what _load_tracking reads
NewSession ==
    /\ pc = "done"
    /\ ~_load_tracking_raises(tracking_file)
    /\ tracked_files' = _load_tracking(tracking_file)
    /\ store_init' \in SessionAnswers
    /\ file_search_store' = _initialize_file_search_store(store_init')
    /\ pc' = "idle"
    /\ path' = ""
    /\ is_valid' = FALSE
    /\ is_tracked' = FALSE
    /\ uploaded_file' = NoFile
    /\ operation' = NoOperation
    /\ wait_time' = 0
    /\ result' = None
    /\ raised' = FALSE
    /\ calls' = ZeroCalls
    /\ exit_by' = "none"
    /\ remote_err' = {}
    /\ track_fail' = "none"
    /\ recorded' = FALSE
    /\ op_failure' = FALSE
    /\ tracked0' = tracked_files'
    /\ disk0' = tracking_file
    /\ cache_cleared' = NoClear
    /\ UNCHANGED <<content, tracking_file, has_operations, nUpload, last, prev, rag,
                   batch, validation, cli, other, read>>

\* a second FileManager is constructed over the same cache directory, line 32
OtherConstruct ==
    /\ ~other.loaded
    /\ ~_load_tracking_raises(tracking_file)
    /\ other' = [loaded |-> TRUE, tracked_files |-> _load_tracking(tracking_file)]
    /\ UNCHANGED <<content, storeVars, file_search_store, has_operations, store_init,
                   rag, batch, validation, cli, read, snapVars, nUpload, pc, path, is_valid,
                   is_tracked, uploaded_file, operation, wait_time, result, raised,
                   calls, exit_by, remote_err, track_fail, recorded, op_failure, last>>

\* upload_file(p) of the second manager, with a remote that accepts the file
\* and a write that succeeds: the entry goes into its own map (line 263) and
\* the whole of that map is written over the tracking file (lines 50-52)
OtherUpload(p) ==
    /\ other.loaded
    /\ validate_pdf_file(p, content) = "ok"
    /\ readable(p)
    /\ ~_is_file_tracked(p, content, other.tracked_files)
    /\ nUpload < MaxUploads
    /\ nUpload' = nUpload + 1
    /\ LET m == Put(other.tracked_files, resolve(p),
                    new_entry(RemoteFile(nUpload', TRUE, "ACTIVE", content[resolve(p)]), p, content,
                              file_search_store, nUpload'))
       IN  /\ other' = [other EXCEPT !.tracked_files = m]
           /\ tracking_file' = _save_tracking(m, tracking_file, "ok")
    /\ UNCHANGED <<content, tracked_files, file_search_store, has_operations,
                   store_init, rag, batch, validation, cli, read, snapVars, pc, path,
                   is_valid, is_tracked, uploaded_file, operation, wait_time, result,
                   raised, calls, exit_by, remote_err, track_fail, recorded,
                   op_failure, last>>

InitSessions ==
    /\ Init
    /\ tracking_file \in {Absent, json_dump([k \in {"/docs/a.pdf"} |-> OldEntry])}
    /\ has_operations = FALSE

NextSessions ==
    \/ \E p \in SessionPaths : Begin(p)
    \/ UploadStep
    \/ NewSession
    \/ ClearCache
    \/ OtherConstruct
    \/ \E p \in SessionPaths : OtherUpload(p)

SpecSessions == InitSessions /\ [][NextSessions]_vars

\* ------------------------------------------- queries, questions and uploads
\* the read-only operations of FileManager and SysMLAgent
Queries == {"list_files", "get_file_count", "get_file_search_store_name",
            "get_file_uris"}

\* what each of them returns, file_manager.py lines 318-333, 352-361 and
\* 363-374, agent.py line 148
query_result(q, t, store) ==
    CASE q = "list_files" -> list_files(t)
      [] q = "get_file_count" -> <<"int", get_file_count(t)>>
      [] q = "get_file_search_store_name" -> get_file_search_store_name(store)
      [] q = "get_file_uris" -> get_file_uris(t)

\* a query between two calls: it assigns nothing
Query(q) ==
    /\ pc \in {"idle", "done"}
    /\ rag.pc = "idle"
    /\ read' = [op |-> q, value |-> query_result(q, tracked_files, file_search_store)]
    /\ UNCHANGED <<content, storeVars, file_search_store, has_operations, store_init,
                   rag, batch, validation, cli, other, snapVars, nUpload, pc, path,
                   is_valid, is_tracked, uploaded_file, operation, wait_time, result,
                   raised, calls, exit_by, remote_err, track_fail, recorded,
                   op_failure, last>>

\* files.upload requests in a behaviour of this specification
MaxFrameUploads == 1

\* upload_file and clear_cache, called before the queries and the question
BeginFrame ==
    /\ rag.pc = "idle"
    /\ read = NoRead
    /\ \E p \in SessionPaths :
         /\ would_upload(p) => nUpload < MaxFrameUploads
         /\ Begin(p)

ClearCacheFrame ==
    /\ rag.pc = "idle"
    /\ read = NoRead
    /\ ClearCache

\* SysMLAgent.ask_question between two calls, routed to ask_question or to
\* ask_with_retry
AskFrame ==
    /\ pc \in {"idle", "done"}
    /\ \/ AgentAsk(FALSE, 0)
       \/ AgentAsk(TRUE, 2)

InitFrame ==
    /\ Init
    /\ has_operations = FALSE

NextFrame ==
    \/ BeginFrame
    \/ UploadStep
    \/ ClearCacheFrame
    \/ \E q \in Queries : Query(q)
    \/ AskFrame
    \/ Generate
    \/ Extract
    \/ RetrySleep

SpecFrame == InitFrame /\ [][NextFrame]_vars

\* ------------------------------------------------------------ command line
\* max_retries when the caller gives none, agent.py line 91
DefaultMaxRetries == 3

\* what the user does at the prompt: a line, the end of the input, or an
\* interrupt
Lines == {"quit", "exit", "q", "QUIT", " q ", "", "  ", "what is a part?"}
PromptEvents == {<<"line", l>> : l \in Lines} \cup {<<"eof">>, <<"interrupt">>}

\* str.strip() and str.lower() over the lines above
strip(l) == IF l = " q " THEN "q" ELSE IF l = "  " THEN "" ELSE l
lower_line(l) == IF l = "QUIT" THEN "quit" ELSE l

\* click.prompt at the end of the input or on an interrupt: the error of
\* input() reaches the caller as it is, or wrapped in the library's own abort
\* error
PromptErrors == {"as_is", "abort"}

\* line 154: not question or question.lower() in ['quit', 'exit', 'q']
leaves_loop(question) ==
    question = "" \/ lower_line(question) \in {"quit", "exit", "q"}

\* variant: a failed answer ends the loop
loop_after_answer_stops(failed) == IF failed THEN "exited" ELSE "prompt"

\* lines 159-165 and 150: the answer is printed and `while True` goes round
loop_after_answer(failed) == "prompt"

\* sys.exit(1) after a styled error, as in lines 124-126
exit_with_error(c, e) ==
    [c EXCEPT !.pc = "exited", !.exit_status = 1, !.styled_error = TRUE,
              !.shown = <<"error", e>>]

\* the `ask` command up to the facade call, lines 103-115
CliAsk(no_retry) ==
    /\ cli.pc = "idle"
    /\ rag.pc = "idle"
    /\ IF list_files_raises(tracked_files)
       THEN /\ cli' = exit_with_error([NoCommand EXCEPT !.cmd = "ask"], None)
            /\ UNCHANGED rag
       ELSE /\ cli' = [NoCommand EXCEPT !.cmd = "ask", !.pc = "asking"]
            /\ rag' = agent_ask(~no_retry, DefaultMaxRetries)
    /\ UNCHANGED fmVars

\* the `ask` command once the facade call has ended, lines 115-126: the value
\* returned is printed as the answer and the command ends normally; only an
\* exception reaches the styled error and sys.exit(1)
CliAskDone ==
    /\ cli.cmd = "ask"
    /\ cli.pc = "asking"
    /\ rag.pc \in {"returned", "raised"}
    /\ cli' = IF rag.agent_raised
              THEN exit_with_error(cli, rag.error.type)
              ELSE [cli EXCEPT !.pc = "exited", !.exit_status = 0,
                               !.shown = <<"answer", rag.agent_result>>]
    /\ UNCHANGED <<fmVars, rag>>

\* the `interactive` command up to the first prompt, lines 132-148
CliInteractive ==
    /\ cli.pc = "idle"
    /\ rag.pc = "idle"
    /\ cli' = IF list_files_raises(tracked_files)
              THEN exit_with_error([NoCommand EXCEPT !.cmd = "interactive"], None)
              ELSE [NoCommand EXCEPT !.cmd = "interactive", !.pc = "prompt"]
    /\ UNCHANGED <<fmVars, rag>>

\* one prompt, lines 152-159 and 167-175
CliPrompt(ev) ==
    /\ cli.cmd = "interactive"
    /\ cli.pc = "prompt"
    /\ IF ev[1] = "line"
       THEN IF leaves_loop(strip(ev[2]))
            THEN /\ cli' = [cli EXCEPT !.pc = "exited", !.exit_status = 0,
                                       !.input = ev, !.shown = <<"Goodbye!">>,
                                       !.ended_by = IF strip(ev[2]) = "" THEN "empty"
                                                    ELSE "word"]
                 /\ UNCHANGED rag
            ELSE /\ cli' = [cli EXCEPT !.pc = "asking", !.input = ev,
                                       !.shown = <<"Thinking...">>]
                 /\ rag' = agent_ask(TRUE, DefaultMaxRetries)
       ELSE /\ UNCHANGED rag
            /\ \E how \in PromptErrors :
                 cli' = IF how = "as_is"
                        THEN [cli EXCEPT !.pc = "exited", !.exit_status = 0,
                                         !.input = ev, !.shown = <<"Goodbye!">>,
                                         !.ended_by = ev[1]]
                        ELSE \* line 173: the abort error is an Exception
                             [cli EXCEPT !.input = ev, !.shown = <<"error", "Abort">>,
                                         !.styled_error = TRUE]
    /\ UNCHANGED fmVars

\* the answer of one question, lines 159-165, or the handler of line 173
CliAnswer ==
    /\ cli.cmd = "interactive"
    /\ cli.pc = "asking"
    /\ rag.pc \in {"returned", "raised"}
    /\ cli' = IF rag.agent_raised
              THEN [cli EXCEPT !.pc = "prompt", !.styled_error = TRUE,
                               !.shown = <<"error", rag.error.type>>]
              ELSE LET to == loop_after_answer(rag.pc = "raised")
                   IN  [cli EXCEPT !.pc = to,
                                   !.shown = <<"answer", rag.agent_result>>,
                                   !.exit_status = IF to = "exited" THEN 1 ELSE @,
                                   !.ended_by = IF to = "exited" THEN "failure" ELSE @]
    /\ UNCHANGED <<fmVars, rag>>

\* an interrupt while a question is being answered, line 167
CliInterrupt ==
    /\ cli.cmd = "interactive"
    /\ cli.pc = "asking"
    /\ cli' = [cli EXCEPT !.pc = "exited", !.exit_status = 0,
                          !.shown = <<"Goodbye!">>, !.ended_by = "interrupt"]
    /\ UNCHANGED <<fmVars, rag>>

InitCli ==
    /\ Init
    /\ tracking_file = Absent
    /\ has_operations = FALSE

NextCli ==
    \/ \E no_retry \in BOOLEAN : CliAsk(no_retry)
    \/ CliAskDone
    \/ CliInteractive
    \/ \E ev \in PromptEvents : CliPrompt(ev)
    \/ CliAnswer
    \/ CliInterrupt
    \/ Generate
    \/ Extract
    \/ RetrySleep

SpecCli == InitCli /\ [][NextCli]_vars

\* ------------------------------------------- validate_pdf_file on its own
\* the paths handed to validate_pdf_file
ValidatePaths == Paths \cup {"/scan.PDF", "/docs/sub", "/docs/sub/c.pdf", "/empty"}

\* validate_pdf_file(file_path): the verdict and the message returned
Validate(p) ==
    /\ validation' = [path |-> p,
                      verdict |-> validate_pdf_file(p, content),
                      message |-> error_message(validate_pdf_file(p, content))]
    /\ UNCHANGED <<content, storeVars, file_search_store, has_operations, store_init,
                   rag, batch, cli, other, read, snapVars, nUpload, pc, path, is_valid,
                   is_tracked, uploaded_file, operation, wait_time, result, raised,
                   calls, exit_by, remote_err, track_fail, recorded, op_failure, last>>

\* every file empty or not
InitValidate ==
    /\ ConstructedOver(SessionAnswers, [RegularFiles -> {0, 1}])
    /\ tracking_file = Absent
    /\ has_operations = FALSE

NextValidate == \E p \in ValidatePaths : Validate(p)

SpecValidate == InitValidate /\ [][NextValidate]_vars

\* ------------------------------------------------------------------ claims
\* a step that starts an upload_file call (the only step that leaves "idle" or
\* "done" without clearing the cache or touching a file)
CallStarts ==
    /\ pc \in {"idle", "done"}
    /\ pc' # "idle"
    /\ content' = content

\* C1: idempotent upload.  When the previous upload_file recorded a file and
\* returned its name/uri, and the content of that file is what it was when
\* that call returned, the next upload_file on a path resolving to the same
\* file returns at once with exactly that name/uri, issues no remote call of
\* any kind, and files.upload was invoked exactly once over the two calls.
C1_IdempotentUpload ==
    [][ ( /\ CallStarts
          /\ last.recorded
          /\ last.result # None
          /\ resolve(path') = last.key
          /\ content[last.key] = last.content[last.key] )
        => ( /\ pc' = "done"
             /\ ~raised'
             /\ result' = last.result
             /\ calls' = ZeroCalls
             /\ nUpload' = nUpload
             /\ last.uploads + calls'.upload = 1 ) ]_vars

\* a second call has short-circuited on the entry recorded by the first
C1_Witness ==
    /\ pc = "done"
    /\ prev.recorded
    /\ prev.uploads = 1
    /\ prev.key = resolve(path)
    /\ is_tracked
    /\ result # None
    /\ result = prev.result
    /\ calls = ZeroCalls

\* C2: re-upload on content change.  A call on a valid readable file whose
\* entry holds a hash different from the hash of the current content does not
\* short-circuit but goes on to files.upload; and when the record step of a
\* call on an already tracked key returns a result, that one entry (no other,
\* no new key) is replaced: its hash is the hash of the content at that
\* moment, its name/uri are those of the new remote handle.
C2_ReuploadOnChange ==
    [][ /\ ( ( /\ CallStarts
               /\ validate_pdf_file(path', content) = "ok"
               /\ readable(path')
               /\ resolve(path') \in DOMAIN tracked_files
               /\ Get(tracked_files[resolve(path')], "hash")
                     # sha256(content[resolve(path')]) )
             => ( /\ pc' = "upload"
                  /\ calls'.upload = 0
                  /\ tracked_files' = tracked_files ) )
        /\ ( ( /\ pc = "track"
               /\ pc' = "done"
               /\ resolve(path) \in DOMAIN tracked_files
               /\ result' # None )
             => ( /\ calls.upload = 1
                  /\ DOMAIN tracked_files' = DOMAIN tracked_files
                  /\ \A k \in DOMAIN tracked_files \ {resolve(path)} :
                        tracked_files'[k] = tracked_files[k]
                  /\ tracked_files'[resolve(path)].hash = sha256(content[resolve(path)])
                  /\ tracked_files'[resolve(path)].name = uploaded_file.name
                  /\ tracked_files'[resolve(path)].name = <<"files", nUpload>>
                  /\ tracked_files'[resolve(path)].uri = uploaded_file.uri
                  /\ result' = [name |-> uploaded_file.name, uri |-> uploaded_file.uri] ) ) ]_vars

\* a stale entry was replaced by a re-upload
C2_Witness ==
    /\ pc = "done"
    /\ recorded
    /\ resolve(path) \in DOMAIN tracked0
    /\ Get(tracked0[resolve(path)], "hash") # tracked_files[resolve(path)].hash
    /\ Get(tracked0[resolve(path)], "name") # tracked_files[resolve(path)].name
    /\ tracked_files[resolve(path)].hash = sha256(content[resolve(path)])
    /\ result = [name |-> tracked_files[resolve(path)].name,
                 uri |-> tracked_files[resolve(path)].uri]

C4_NoExceptionEscapes ==
    pc = "done" =>
        /\ ~raised
        /\ (result = None \/ DOMAIN result = {"name", "uri"})

\* C5: a failed upload leaves the Tracking Store untouched: when upload_file
\* has returned None the in-memory map and the persisted tracking file are
\* what they were when the call started, and the map differs from what it was
\* at the start of a call only once that call has returned a result.
C5_FailedUploadLeavesStore ==
    /\ (pc = "done" /\ result = None) =>
          (tracked_files = tracked0 /\ tracking_file = disk0)
    /\ (tracked_files # tracked0) => (pc = "done" /\ result # None)

\* C6: validation precedes every remote call: a call that has left its first
\* step, or has issued any remote call, was given a path that passed
\* validate_pdf_file and was found untracked; a call on a missing path, a
\* directory, a non-.pdf file or an empty file has returned None and has
\* issued no remote call at all.
C6_ValidationFirst ==
    /\ (pc \notin {"idle", "done"} \/ calls # ZeroCalls) =>
          (is_valid /\ ~is_tracked /\ validate_pdf_file(path, content) = "ok")
    /\ (pc = "done" /\ ~is_valid) =>
          (result = None /\ ~raised /\ calls = ZeroCalls)
    /\ (path \in {"/docs/missing.pdf", "/docs", "/docs/notes.txt", "/docs/empty.pdf"}) =>
          (pc = "done" /\ ~is_valid /\ result = None /\ calls = ZeroCalls
             /\ uploaded_file = NoFile)

\* a call on a non-PDF file has returned None without any remote call
C6_Witness ==
    /\ pc = "done"
    /\ path = "/docs/notes.txt"
    /\ ~is_valid
    /\ result = None
    /\ calls = ZeroCalls
    /\ nUpload = 0

C8_ProcessingWait ==
    /\ (uploaded_file.state \in {"PROCESSING", "processing"} /\ pc # "done") =>
          /\ pc \in {"proc_sleep", "proc_get"}
          /\ calls.import = 0
          /\ calls.opsget = 0
          /\ result = None
          /\ tracked_files = tracked0
          /\ tracking_file = disk0
    /\ (pc \in {"proc_sleep", "proc_get"}) =>
          uploaded_file.state \in {"PROCESSING", "processing"}
    /\ (pc = "proc_get") => calls.psleep = Min(calls.get + 1, MaxPolls)
    /\ (pc \in {"proc_sleep", "import", "imp_sleep", "imp_refresh", "track"}) =>
          calls.get = calls.psleep
    /\ (pc = "done" /\ uploaded_file.state \in {"FAILED", "failed"}) =>
          /\ result = None
          /\ ~raised
          /\ calls.import = 0
          /\ tracked_files = tracked0
          /\ tracking_file = disk0

\* the handle was polled and left the processing state as failed
C8_Witness ==
    /\ pc = "done"
    /\ calls.get = 1
    /\ calls.psleep = 1
    /\ remote_err = {}
    /\ uploaded_file.state = "FAILED"
    /\ result = None
    /\ calls.import = 0
    /\ tracked_files = tracked0

InProcessingWait == pc \in {"proc_sleep", "proc_get"}
InImportWait == pc \in {"imp_sleep", "imp_refresh"}

\* C9: the processing wait is bounded: whatever the remote answers, a call
\* that entered the processing wait leaves it (and upload_file returns).
C9_ProcessingWaitTerminates ==
    InProcessingWait ~> (pc = "done")

\* C10: import wait ceiling.  The accumulated sleep of the import wait never
\* exceeds 300 units, with at most 150 sleeps of 2 units and at most 150
\* refreshes; a call that left the wait at the ceiling with an operation that
\* is neither done nor in error goes on to the record step, writes the entry
\* and returns the handle's name/uri whenever the record step does not raise;
\* and the wait always ends.
C10_Safe ==
    /\ wait_time <= 300
    /\ (pc # "done") =>
          /\ wait_time = 2 * calls.isleep
          /\ calls.isleep <= 150
          /\ calls.opsget <= 150
          /\ calls.opsget <= calls.isleep
    /\ (exit_by = "ceiling" /\ pc # "done") =>
          /\ pc = "track"
          /\ wait_time = 300
          /\ calls.isleep = 150
          /\ ~operation.done
          /\ ~operation.error
          /\ operation.status \notin {"DONE", "FAILED"} \/ operation.hasDone
          /\ operation.status # "FAILED"
    /\ (exit_by = "ceiling" /\ pc = "done") =>
          /\ resolve(path) \in DOMAIN tracked_files
          /\ tracked_files[resolve(path)].name = uploaded_file.name
          /\ (track_fail # "raise") =>
                result = [name |-> uploaded_file.name,
                          uri |-> file_uri_of(uploaded_file)]

C10_ImportWaitCeiling ==
    /\ []C10_Safe
    /\ InImportWait ~> ~InImportWait

\* the wait ran into the ceiling and the file was recorded and returned
C10_Witness ==
    /\ pc = "done"
    /\ exit_by = "ceiling"
    /\ recorded
    /\ result # None
    /\ result.name = uploaded_file.name

\* C11: import failure.  Whenever an import operation seen by upload_file,
\* as the answer to the import request or to any refresh, carried a failure
\* status or a non-empty error (with or without a 'done' flag), the call has
\* returned None and has written no tracking entry.
C11_ImportFailureGivesNone ==
    (pc = "done" /\ op_failure) =>
        /\ result = None
        /\ ~recorded
        /\ tracked_files = tracked0
        /\ tracking_file = disk0

\* list, create and get all failed while the manager was constructed
AllAttemptsFailed ==
    /\ store_init.list \in {"raise", "no_attr"}
    /\ store_init.create = "raise"
    /\ store_init.get \in {"raise", "no_attr"}

\* C12: degraded mode.  When every attempt to list, create and get the store
\* failed, the constructed manager holds no store handle; and a manager
\* without a handle never requests an import nor refreshes an operation: a
\* call that submitted the file and saw it leave the processing state without
\* failure is at the record step or has completed it, the entry written has
\* store_name None, and name/uri are returned whenever the record step does
\* not raise.
C12_DegradedMode ==
    /\ AllAttemptsFailed => file_search_store = None
    /\ (file_search_store = None) =>
          /\ pc \notin {"import", "imp_sleep", "imp_refresh"}
          /\ calls.import = 0
          /\ calls.opsget = 0
          /\ calls.isleep = 0
          /\ (pc = "track") => (calls.upload = 1 /\ remote_err = {})
          /\ ( /\ calls.upload = 1
               /\ remote_err = {}
               /\ uploaded_file.state \notin ProcessingStates \cup FailedStates )
             => /\ pc \in {"track", "done"}
                /\ (pc = "done") =>
                      /\ resolve(path) \in DOMAIN tracked_files
                      /\ tracked_files[resolve(path)].name = uploaded_file.name
                      /\ tracked_files[resolve(path)].store_name = None
                      /\ (track_fail # "raise") =>
                            result = [name |-> uploaded_file.name,
                                      uri |-> file_uri_of(uploaded_file)]

\* construction failed throughout and the upload was polled, recorded without
\* a store and returned
C12_Witness ==
    /\ AllAttemptsFailed
    /\ file_search_store = None
    /\ pc = "done"
    /\ calls.upload = 1
    /\ calls.get = 1
    /\ calls.import = 0
    /\ recorded
    /\ tracked_files[resolve(path)].store_name = None
    /\ result = [name |-> uploaded_file.name, uri |-> uploaded_file.uri]

\* C13: flush after every mutation.  Whenever no call is running (every
\* upload_file and clear_cache issued so far has completed), the persisted
\* tracking file denotes exactly the in-memory map, an absent file denoting the
\* empty map, whatever the outcome of the write was.
C13_FlushAfterMutation ==
    (pc \in {"idle", "done"}) => (_load_tracking(tracking_file) = tracked_files)

\* C14: clear_cache.  When the last clear_cache returned True the map is
\* empty, the tracking file does not exist, list_files yields no item and
\* get_file_count is 0; and a clear_cache that returns False leaves the map as
\* it was.
C14_ClearCache ==
    /\ []( (cache_cleared.returned = "True") =>
             /\ tracked_files = EmptyMap
             /\ tracking_file = Absent
             /\ DOMAIN list_files(tracked_files) = {}
             /\ get_file_count(tracked_files) = 0 )
    /\ [][ (cache_cleared'.returned = "False") =>
             (tracked_files' = tracked_files) ]_vars

\* clear_cache returned True on a store that held an entry
C14_Witness ==
    /\ cache_cleared.returned = "True"
    /\ cache_cleared.before > 0
    /\ nUpload > 0
    /\ tracked_files = EmptyMap
    /\ tracking_file = Absent

\* C15: save/load round trip.  For every map from string keys to entries,
\* entries with store_name None included, a _save_tracking that wrote the file
\* followed by _load_tracking yields, without raising, a map equal to the one
\* saved, and the file is the JSON document of that map.
C15_SaveLoadRoundTrip ==
    (pc = "reloaded" /\ track_fail = "none") =>
        /\ ~raised
        /\ tracked_files = tracked0
        /\ DOMAIN tracked_files = DOMAIN tracked0
        /\ \A k \in DOMAIN tracked0 :
              \A f \in DOMAIN tracked0[k] : tracked_files[k][f] = tracked0[k][f]
        /\ tracking_file = json_dump(tracked0)

\* a map with two entries, one of them without a store, came back as saved
\* over a file that held something else
C15_Witness ==
    /\ pc = "reloaded"
    /\ track_fail = "none"
    /\ DOMAIN tracked0 = StoreKeys
    /\ tracked0["/docs/a.pdf"] = OldEntry
    /\ tracked0["/docs/b.pdf"] = ImportedEntry
    /\ tracked_files["/docs/a.pdf"].store_name = None
    /\ tracked_files["/docs/b.pdf"].store_name = StoreHandle
    /\ disk0 = Corrupt
    /\ tracked_files = tracked0

\* C16: _load_tracking never raises and always yields a map: the empty map
\* for a missing file, the stored map for a well-formed map, and the empty map
\* for every other persisted content.
C16_LoadNeverRaises ==
    (pc = "loaded") =>
        /\ ~raised
        /\ "pytype" \notin DOMAIN tracked_files
        /\ (disk0 = Absent) => (tracked_files = EmptyMap)
        /\ (disk0 \in {Corrupt, Undecodable, Unreadable, JsonArray}) =>
              (tracked_files = EmptyMap)

\* C17: retry exhaustion.  With max_retries = n >= 1, ask_with_retry never
\* makes more than n ask_question calls; when all of them failed it has raised,
\* after exactly n calls, a RuntimeError whose cause is the error of the n-th
\* call, and it has returned no answer.
C17_RetryExhaustion ==
    (rag.use_retry /\ rag.max_retries >= 1) =>
        /\ rag.asks <= rag.max_retries
        /\ (Len(rag.errors) = rag.max_retries) => (rag.pc = "raised")
        /\ (rag.pc = "raised") =>
              /\ rag.asks = rag.max_retries
              /\ rag.generates = rag.max_retries
              /\ Len(rag.errors) = rag.max_retries
              /\ rag.error = [type |-> "RuntimeError",
                              cause |-> rag.errors[rag.max_retries]]
              /\ rag.result = None

\* three attempts failed with different errors and the last one is the cause
C17_Witness ==
    /\ rag.pc = "raised"
    /\ rag.use_retry
    /\ rag.max_retries = 3
    /\ rag.asks = 3
    /\ rag.errors = <<"quota", "text_error", "network">>
    /\ rag.error = [type |-> "RuntimeError", cause |-> "network"]

\* C18: retry stops at the first success.  With max_retries = n >= 1, when
\* ask_with_retry has returned, the call that succeeded was the first to do
\* so, it was the k-th with k <= n, exactly k calls were made, the value
\* returned is the answer of that call and nothing was raised; no more than n
\* calls are ever made, and nothing happens after the return.
C18_StopsAtFirstSuccess ==
    /\ []( (rag.use_retry /\ rag.max_retries >= 1) =>
             /\ rag.asks <= rag.max_retries
             /\ (rag.pc = "returned") =>
                   /\ rag.asks = Len(rag.errors) + 1
                   /\ rag.generates = rag.asks
                   /\ rag.result = extract_answer(rag.response)
                   /\ rag.result # None
                   /\ rag.error = NoError )
    /\ [][ (rag.pc = "returned") => (rag' = rag) ]_vars

\* the second of three allowed attempts succeeded
C18_Witness ==
    /\ rag.pc = "returned"
    /\ rag.use_retry
    /\ rag.max_retries = 3
    /\ rag.asks = 2
    /\ Len(rag.errors) = 1
    /\ rag.result = <<"joined parts", 1>>

C20_AskQuestionPropagates ==
    /\ rag.generates = IF rag.pc = "generate" THEN rag.asks - 1 ELSE rag.asks
    /\ rag.use_retry => (rag.failures = Len(rag.errors))
    /\ ~rag.use_retry =>
          /\ rag.asks <= 1
          /\ rag.failures = IF rag.pc = "raised" THEN 1 ELSE 0
          /\ (rag.pc = "raised") =>
                /\ rag.error.type \in Errors \cup ExtractErrors
                /\ rag.error.cause = "none"
                /\ rag.result = None
                /\ rag.generates = 1
    /\ (rag.pc = "returned") =>
          /\ rag.failures = rag.asks - 1
          /\ ~extract_raises(rag.response)
          /\ rag.result = extract_answer(rag.response)

\* called directly, the extraction failed and its error left ask_question
C20_Witness ==
    /\ rag.pc = "raised"
    /\ ~rag.use_retry
    /\ rag.asks = 1
    /\ rag.generates = 1
    /\ rag.error = [type |-> "join_error", cause |-> "none"]
    /\ rag.result = None

C23_FacadeQuestionRouting ==
    rag.via_agent =>
        /\ ~rag.agent_raised
        /\ rag.store_name = get_file_search_store_name(file_search_store)
        /\ rag.use_retry =>
              /\ rag.retry_delay = DefaultRetryDelay
              /\ rag.asks <= rag.max_retries
              /\ (rag.pc = "raised") =>
                    (rag.asks = rag.max_retries /\ rag.error.type = "RuntimeError")
        /\ ~rag.use_retry =>
              /\ rag.asks = 1
              /\ rag.generates <= 1
              /\ (rag.pc = "raised") => (rag.generates = 1 /\ rag.sleeps = <<>>)
        /\ (rag.pc = "raised") =>
              /\ rag.agent_result # None
              /\ rag.agent_result[1] = "Error:"
              /\ rag.agent_result = <<"Error:", rag.error.type>>
        /\ (rag.pc = "returned") => (rag.agent_result = rag.result)
        /\ (rag.pc \notin {"raised", "returned"}) => (rag.agent_result = None)

\* asked through the agent with the default three attempts, all of which
\* failed, the question came back as an error text
C23_Witness ==
    /\ rag.via_agent
    /\ rag.use_retry
    /\ rag.max_retries = 3
    /\ rag.pc = "raised"
    /\ rag.asks = 3
    /\ ~rag.agent_raised
    /\ rag.agent_result = <<"Error:", "RuntimeError">>

\* C22: facade error boundary.  No call of a facade method lets an error of
\* its delegate out: list_files has returned a list and get_file_count a
\* number, also when FileManager.list_files raised on what was loaded.
C22_FacadeErrorBoundary ==
    /\ (pc = "listed") => (~raised /\ DOMAIN result = {"items"})
    /\ (pc = "counted") => (~raised /\ DOMAIN result = {"count"})

\* the classification of a path, stated from the file system alone
Classified ==
    LET p == validation.path
        v == validation.verdict
        isPdf == suffix(p) \in {".pdf", ".PDF"}
    IN  /\ (v = "not_found") <=> ~path_exists(p)
        /\ (v = "not_a_file") <=> (path_exists(p) /\ ~path_is_file(p))
        /\ (v = "wrong_type") <=> (path_is_file(p) /\ ~isPdf)
        /\ (v = "empty") <=> (path_is_file(p) /\ isPdf /\ content[resolve(p)] = 0)
        /\ (v = "ok") <=> (path_is_file(p) /\ isPdf /\ content[resolve(p)] # 0)
        /\ (validation.message = None) <=> (v = "ok")

\* C26: validate_pdf_file classifies a path by the first failing check, in the
\* order not found, not a file, wrong type (extension compared without regard
\* to case), empty, and otherwise succeeds with no message; it changes nothing
\* but its own return value, and an empty file that is not a .pdf is of the
\* wrong type, not empty.
C26_ValidatePdfFile ==
    [][(validation' # validation) =>
          /\ Classified'
          /\ UNCHANGED <<content, tracked_files, tracking_file, pc, result, calls,
                         nUpload>>]_vars

C26_Witness ==
    /\ validation.path = "/docs/notes.txt"
    /\ content["/docs/notes.txt"] = 0
    /\ validation.verdict = "wrong_type"

\* C24: batch failure isolation.  Whatever happened to the files before it,
\* every enumerated PDF has been attempted once when upload_directory ends,
\* and the list handed to the caller holds every success.
C24_BatchFailureIsolation ==
    (batch.pc \in {"returned", "raised"}) =>
        /\ batch.attempted = batch.enumerated
        /\ agent_upload_directory(batch) = batch.results

\* the results of the calls that gave one, in the order of the calls
NonNull(res) == res # None

\* C25: batch result.  When upload_directory returns, the list is exactly the
\* non-null upload_file results of the immediate *.pdf entries in enumeration
\* order; entries of subdirectories and files that are not PDFs are never
\* handed to upload_file, and an invalid directory or one with no PDF gives the
\* empty list with no remote call.
C25_BatchResult ==
    /\ (batch.pc = "returned") =>
          /\ batch.results = SelectSeq(batch.outcomes, NonNull)
          /\ batch.attempted = batch.enumerated
          /\ Len(batch.outcomes) = Len(batch.attempted)
          /\ (validate_directory(batch.dir) # "ok" \/ glob(batch.dir) = {}) =>
                (batch.results = <<>> /\ batch.attempted = <<>>
                                     /\ nUpload = batch.uploads0)
    /\ (batch.pc # "idle") =>
          /\ \A i \in 1..Len(batch.enumerated) :
                /\ batch.enumerated[i] \in iterdir(batch.dir)
                /\ suffix(batch.enumerated[i]) = ".pdf"
          /\ \A i \in 1..Len(batch.attempted) :
                batch.attempted[i] = batch.enumerated[i]
    /\ (batch.pc = "loop" /\ pc # "idle") => path = Head(batch.queue)

C25_Witness ==
    /\ batch.pc = "returned"
    /\ batch.dir = "/papers"
    /\ Len(batch.enumerated) = 2
    /\ Len(batch.results) = 1
    /\ batch.outcomes[1] = None

\* C27: command exit status.  The `ask` command whose answer generation
\* failed (after all retries, or at once without retry) has printed a styled
\* error and ended with a non-zero exit status.
C27_CommandExitStatus ==
    (cli.cmd = "ask" /\ cli.pc = "exited" /\ rag.pc = "raised") =>
        (cli.exit_status # 0 /\ cli.styled_error)

\* C28: interactive mode survives failures.  A step that ends the answering
\* of a question in the interactive loop either is an interrupt by the user or
\* prints what the facade handed back (the error text when generation failed)
\* and goes back to the prompt; no failed question ends the loop or the process.
C28_InteractiveSurvivesFailures ==
    [][(cli.cmd = "interactive" /\ cli.pc = "asking" /\ cli' # cli) =>
          \/ cli'.ended_by = "interrupt"
          \/ /\ cli'.pc = "prompt"
             /\ cli'.exit_status = -1
             /\ cli'.shown = <<"answer", rag.agent_result>>
             /\ (rag.pc = "raised") =>
                    cli'.shown = <<"answer", <<"Error:", rag.error.type>>>>]_vars

C28_Witness ==
    /\ cli.cmd = "interactive"
    /\ cli.pc = "prompt"
    /\ rag.pc = "raised"
    /\ rag.failures = DefaultMaxRetries
    /\ cli.shown = <<"answer", <<"Error:", "RuntimeError">>>>

\* C29: interactive loop exit condition.  The loop has ended only on the
\* input quit, exit or q (in any case, blanks around it aside), at the end of
\* the input, or on an interrupt: an empty line never ends it.
C29_InteractiveExitCondition ==
    (cli.cmd = "interactive" /\ cli.pc = "exited" /\ cli.exit_status = 0) =>
        cli.ended_by \in {"word", "eof", "interrupt"}

\* C30: record ordering and completeness.  A step of upload_file that writes
\* an entry is taken only once the remote file is neither processing nor failed
\* and, with a store handle, after the import request was made and its wait
\* has ended; the entry holds the six fields, its name and uri are those of the
\* remote handle of this call, and the call returns exactly that name and uri.
C30_RecordOrderingAndCompleteness ==
    [][(tracked_files' # tracked_files) =>
          LET key == resolve(path)
              e == tracked_files'[key]
          IN  /\ pc = "track" /\ pc' = "done"
              /\ uploaded_file.state \notin ProcessingStates \cup FailedStates
              /\ calls.upload = 1
              /\ (file_search_store # None) => calls.import = 1
              /\ DOMAIN e = {"name", "uri", "hash", "upload_date", "original_path",
                             "store_name"}
              /\ e.name = uploaded_file.name
              /\ e.uri = IF uploaded_file.uri # None THEN uploaded_file.uri
                         ELSE uploaded_file.name
              /\ e.store_name = file_search_store
              /\ \A k \in DOMAIN tracked_files \ {key} :
                    k \in DOMAIN tracked_files' /\ tracked_files'[k] = tracked_files[k]
              /\ result' = [name |-> e.name, uri |-> e.uri]]_vars

\* C31: collection lookup-or-create.  After construction: if the listing held
\* a store whose display name is the configured name, that store is the handle
\* and create was not called; otherwise create was called exactly once; get
\* was tried only after create failed; there is at most one create call and no
\* remote failure of the step leaves the constructor.
C31_LookupOrCreate ==
    LET a == store_init
        n == store_init_calls(a)
    IN  /\ (a.list \in {"match_display", "name_before_display"}) =>
              (file_search_store = StoreHandle /\ n.create = 0)
        /\ (a.list \notin {"match_display", "name_before_display"}) => n.create = 1
        /\ (n.get = 1) => (n.create = 1 /\ a.create = "raise")
        /\ n.create <= 1
        /\ ~store_init_raises(a)

C33_KeyedByResolvedPath ==
    /\ DOMAIN tracked_files \subseteq RegularFiles
    /\ (pc = "done" /\ cache_cleared = NoClear /\ path # "") =>
          /\ is_tracked => tracked_files = tracked0
          /\ get_file_count(tracked_files) =
                get_file_count(tracked0) +
                (IF result # None /\ resolve(path) \notin DOMAIN tracked0
                 THEN 1 ELSE 0)

\* C34: cross-session reuse.  The first upload_file of a new FileManager
\* over the same cache directory, on a file for which the last call of the
\* manager before it returned a result and whose content is what it was then,
\* returns at once with that name/uri and makes no remote call.
C34_CrossSessionReuse ==
    [][ ( /\ pc = "idle"
          /\ pc' # "idle"
          /\ content' = content
          /\ last.recorded
          /\ last.result # None
          /\ resolve(path') = last.key
          /\ content[last.key] = last.content[last.key] )
        => ( /\ pc' = "done"
             /\ ~raised'
             /\ result' = last.result
             /\ calls' = ZeroCalls
             /\ nUpload' = nUpload ) ]_vars

\* the keys of the entries held by the persisted tracking file
persisted_keys(f) == DOMAIN _load_tracking(f)

\* C39: no lost entries across sessions.  An entry of the persisted tracking
\* file stays in it over every step but the removal of the file by clear_cache
\* (a re-upload of its key keeps the key), also when a second FileManager over
\* the same cache directory saves its own map.
C39_NoLostEntries ==
    [][(tracking_file' # Absent) =>
          persisted_keys(tracking_file) \subseteq persisted_keys(tracking_file')]_vars

\* C35: searchability of returned files.  When a store handle exists and a
\* call has returned a result, the entry of the file names the current store as
\* its store, and a call that did not short-circuit has requested the import.
C35_ReturnedFilesSearchable ==
    (pc = "done" /\ result # None /\ file_search_store # None) =>
        /\ resolve(path) \in DOMAIN tracked_files
        /\ Get(tracked_files[resolve(path)], "store_name") = file_search_store
        /\ ~is_tracked => calls.import = 1

\* C36: recorded hash matches uploaded content.  The hash written into an
\* entry is the hash of the content that files.upload of this call handed to
\* the remote, whatever another actor did to the file on disk in the meantime.
C36_HashOfUploadedContent ==
    [][(pc = "track" /\ pc' = "done" /\ tracked_files' # tracked_files) =>
          <<"bytes", tracked_files'[resolve(path)].hash[2]>> = uploaded_file.content]_vars

\* C37: only uploads and cache-clear mutate the store.  A step that changes
\* the tracking map or the tracking file is the record step of an upload_file
\* or a clear_cache; a query, a step of a question and an upload_file that
\* takes the short-circuit branch leave both as they were; and list_files
\* returns one record per tracked entry, no more and no fewer.
C37_OnlyUploadsAndClearMutate ==
    [][/\ (storeVars' # storeVars) =>
             \/ pc = "track" /\ pc' = "done"
             \/ pc \in {"idle", "done"} /\ pc' = "idle" /\ cache_cleared' # NoClear
       /\ (read' # read) => UNCHANGED storeVars
       /\ (rag' # rag) => UNCHANGED storeVars
       /\ (pc \in {"idle", "done"} /\ pc' = "done" /\ is_tracked') =>
             UNCHANGED storeVars
       /\ (read' # read /\ read'.op = "list_files") =>
             /\ DOMAIN read'.value = DOMAIN tracked_files
             /\ \A k \in DOMAIN tracked_files :
                   \A f \in DOMAIN tracked_files[k] \cap {"name", "uri", "upload_date"} :
                       read'.value[k][f] = tracked_files[k][f]]_vars

\* reached: after a short-circuit upload_file on a non-empty store, list_files
\* has answered and a question has been answered, the store being what the
\* call found
C37_Witness ==
    /\ pc = "done"
    /\ is_tracked
    /\ result # None
    /\ read.op = "list_files"
    /\ DOMAIN read.value = DOMAIN tracked_files
    /\ tracked_files # EmptyMap
    /\ rag.pc = "returned"
    /\ tracked_files = tracked0
    /\ tracking_file = disk0

\* C38: retry with no attempts.  Once ask_with_retry has been called with
\* max_retries <= 0 it has made no ask_question call and no request, has not
\* slept, has returned no answer, and has raised the RuntimeError of lines
\* 161-163 with no cause attached.
C38_RetryWithNoAttempts ==
    (rag.use_retry /\ rag.max_retries <= 0) =>
        /\ rag.pc = "raised"
        /\ rag.asks = 0
        /\ rag.generates = 0
        /\ rag.sleeps = <<>>
        /\ rag.errors = <<>>
        /\ rag.result = None
        /\ rag.error = [type |-> "RuntimeError", cause |-> "none"]

\* reached: ask_with_retry(max_retries = -1) on the handler has raised
C38_Witness ==
    /\ rag.use_retry
    /\ ~rag.via_agent
    /\ rag.max_retries = -1
    /\ rag.pc = "raised"
    /\ rag.asks = 0
    /\ rag.error = [type |-> "RuntimeError", cause |-> "none"]

====
